---- MODULE Spec2Model ----
(***************************************************************************)
(* URL Content Scraper (src/app.py): the tabular URL extractor             *)
(* (read_urls_from_file), the scrape client (scrape_url) and the           *)
(* sequential scrape loop of the "Start Scraping" handler.                 *)
(*                                                                         *)
(* Python values are tagged records [t |-> <type>, v |-> <value>]; text    *)
(* that the code inspects character by character (file names, column       *)
(* labels) is a sequence of one-character strings.                         *)
(***************************************************************************)
EXTENDS Integers, Sequences, FiniteSets, TLC

\* Bounds of the model: rows, columns and cells of an uploaded table.
MaxRows == 2
MaxCols == 2
MaxCells == 4

-----------------------------------------------------------------------------
(* Python values *)

None == [t |-> "None"]
PyStr(s) == [t |-> "str", v |-> s]
\* a number (int or float: neither can be sliced as line 148 does)
PyNum(n) == [t |-> "float", v |-> n]
NaN == [t |-> "nan"]
PyList(s) == [t |-> "list", v |-> s]

\* str.lower(), on the letters the model uses
LowerChar(c) ==
    CASE c = "U" -> "u"
      [] c = "R" -> "r"
      [] c = "L" -> "l"
      [] c = "C" -> "c"
      [] c = "S" -> "s"
      [] c = "V" -> "v"
      [] c = "X" -> "x"
      [] OTHER -> c

lower(s) == [k \in 1..Len(s) |-> LowerChar(s[k])]

\* Python's `sub in s` on strings
Contains(sub, s) ==
    \E k \in 0..(Len(s) - Len(sub)) : SubSeq(s, k + 1, k + Len(sub)) = sub

\* s.split('.')[-1]: the text after the last dot, the whole text without one
LastSegment(s) ==
    LET dots == {k \in 1..Len(s) : s[k] = "."}
    IN  IF dots = {} THEN s
        ELSE SubSeq(s, (CHOOSE k \in dots : \A j \in dots : j <= k) + 1, Len(s))

-----------------------------------------------------------------------------
(* Uploaded files *)

\* uploaded_file.name
FileNames ==
    { <<"d", ".", "c", "s", "v">>,
      <<"d", ".", "X", "L", "S", "X">>,
      <<"d", ".", "x", "l", "s">>,
      <<"d", ".", "t", "x", "t">>,
      <<"c", "s", "v", ".", "t", "x", "t">> }

\* file_extension of line 74
file_extension(name) == lower(LastSegment(name))

\* Column labels of a table. A workbook header cell holding a number gives a
\* non-string label; a delimited-text header is always text.
StrLabel(s) == [t |-> "str", v |-> s]
IntLabel(n) == [t |-> "int", v |-> n]
StrLabels ==
    { StrLabel(<<"U", "R", "L">>),
      StrLabel(<<"m", "y", "U", "r", "l">>),
      StrLabel(<<"i", "d">>),
      StrLabel(<<"u", "r", "i">>) }
Labels == StrLabels \cup {IntLabel(7)}

\* Cells of the file: empty, text, or a number
Empty == [t |-> "empty"]
Txt(s) == [t |-> "text", v |-> s]
Numc(n) == [t |-> "number", v |-> n]
FileCells == {Empty, Txt("https://a.com"), Txt("https://b.com"), Numc(7)}

\* Header rows: up to MaxCols distinct labels (the parser renames duplicates)
Headers ==
    UNION { { h \in [1..n -> Labels] : \A a, b \in 1..n : a # b => h[a] # h[b] }
            : n \in 0..MaxCols }

\* A table: a header and up to MaxRows rows of one cell per column, of at
\* most MaxCells cells in all
TablesOf(h) ==
    IF Len(h) = 0 THEN { [columns |-> h, rows |-> <<>>] }
    ELSE UNION { { [columns |-> h, rows |-> r] : r \in [1..m -> [1..Len(h) -> FileCells]] }
                 : m \in {k \in 0..MaxRows : k * Len(h) <= MaxCells} }
Tables == UNION { TablesOf(h) : h \in Headers }

Column(rows, c) == [k \in 1..Len(rows) |-> rows[k][c]]

\* What a delimited-text file can hold: at least one column, text labels, and
\* a number only in a column without text (a mixed column is read as text).
IsCsvTable(tb) ==
    /\ Len(tb.columns) >= 1
    /\ \A c \in 1..Len(tb.columns) : tb.columns[c].t = "str"
    /\ \A c \in 1..Len(tb.columns) :
          LET col == Column(tb.rows, c)
          IN  ~ (\E a, b \in 1..Len(col) : col[a].t = "text" /\ col[b].t = "number")

Malformed == [t |-> "malformed"]
NoContent == [t |-> "unread"]

\* The contents a file of the given extension can have
Contents(ext) ==
    IF ext = <<"c", "s", "v">>
    THEN {Malformed} \cup {tb \in Tables : IsCsvTable(tb)}
    ELSE {Malformed} \cup Tables

-----------------------------------------------------------------------------
(* Tabular URL Extractor: read_urls_from_file *)

\* A parsed cell: an empty cell becomes NaN
ParseCell(c) ==
    CASE c.t = "empty"  -> NaN
      [] c.t = "text"   -> PyStr(c.v)
      [] c.t = "number" -> PyNum(c.v)

\* pd.read_csv / pd.read_excel: the DataFrame, or an exception
Raised(e) == [t |-> "raised", v |-> e]
read_table(content) ==
    IF content = Malformed THEN Raised("ParserError")
    ELSE [t |-> "DataFrame",
          columns |-> content.columns,
          rows |-> [k \in 1..Len(content.rows) |->
                      [c \in 1..Len(content.columns) |-> ParseCell(content.rows[k][c])]]]

\* Series.dropna(): the non-null values, in order
isna(x) == x = NaN \/ x = None

RECURSIVE dropna_wrong(_)
dropna_wrong(s) ==
    IF s = <<>> THEN <<>>
    ELSE IF isna(Head(s)) THEN Tail(s)
         ELSE <<Head(s)>> \o dropna_wrong(Tail(s))

RECURSIVE dropna(_)
dropna(s) ==
    IF s = <<>> THEN <<>>
    ELSE IF isna(Head(s)) THEN dropna(Tail(s))
         ELSE <<Head(s)>> \o dropna(Tail(s))

\* `'url' in col.lower()`; a label that is not a string has no lower()
HasLower(col) == col.t = "str"
IsUrlLabel(col) == Contains(<<"u", "r", "l">>, lower(col.v))

\* url_columns of line 86
url_columns(columns) == SelectSeq(columns, IsUrlLabel)

ColumnIndex(columns, label) == CHOOSE c \in 1..Len(columns) : columns[c] = label

NoCol == [t |-> "nocol"]

\* The result of read_urls_from_file: the returned value, the column chosen,
\* and the messages shown (st.error / st.warning).
Extracted(urls, col, msgs, df) ==
    [urls |-> urls, url_column |-> col, msgs |-> msgs, df |-> df]

\* Lines 85-97, for a parsed DataFrame
select_and_extract(df) ==
    IF \E c \in 1..Len(df.columns) : ~ HasLower(df.columns[c])
    THEN \* AttributeError in the comprehension of line 86, caught at line 99
         Extracted(None, NoCol, {"error_reading_file"}, df)
    ELSE IF url_columns(df.columns) # <<>>
    THEN LET col == url_columns(df.columns)[1]
         IN  Extracted(PyList(dropna(Column(df.rows, ColumnIndex(df.columns, col)))),
                       col, {}, df)
    ELSE IF Len(df.columns) = 0
    THEN \* IndexError at line 92, caught at line 99
         Extracted(None, NoCol, {"error_reading_file"}, df)
    ELSE LET col == df.columns[1]
         IN  Extracted(PyList(dropna(Column(df.rows, 1))), col, {"warning_no_url_column"}, df)

\* read_urls_from_file, lines 68-101. `content` is what the parser reads from
\* the file; it is not read when the extension is unsupported.
read_urls_from_file(name, content) ==
    LET ext == file_extension(name)
    IN  IF ext \in { <<"c", "s", "v">>, <<"x", "l", "s", "x">>, <<"x", "l", "s">> }
        THEN LET df == read_table(content)
             IN  IF df.t = "raised"
                 THEN Extracted(None, NoCol, {"error_reading_file"}, df)
                 ELSE select_and_extract(df)
        ELSE Extracted(None, NoCol, {"error_unsupported_format"}, None)

\* What the parser is given to read: nothing for an unsupported extension
Readable(name) ==
    LET ext == file_extension(name)
    IN  IF ext \in { <<"c", "s", "v">>, <<"x", "l", "s", "x">>, <<"x", "l", "s">> }
        THEN Contents(ext)
        ELSE {NoContent}

-----------------------------------------------------------------------------
(* Scrape Client: scrape_url *)

\* JSON bodies: a mapping (dict), another JSON value, or text that is no JSON
Dict(f) == [t |-> "dict", v |-> f]
NotJson == [t |-> "notjson"]
PayloadExample == Dict([title |-> PyStr("Example"), text |-> PyStr("hello")])
PayloadNullTitle ==
    Dict([title |-> None, description |-> PyStr(""), text |-> PyStr(""),
          markdown |-> PyStr("# Hi")])
Bodies == {PayloadExample, PayloadNullTitle, PyList(<<1>>), NotJson}

\* What requests.request can give: a response, or a transport exception
Statuses == {200, 300, 404, 500}
HttpResponse(status, body) == [t |-> "response", status |-> status, body |-> body]
TransportError(msg) == [t |-> "exception", msg |-> msg]
Outcomes ==
    { HttpResponse(s, b) : s \in Statuses, b \in Bodies }
        \cup { TransportError("Connection refused"), TransportError("") }

\* response.raise_for_status(): raises HTTPError for 4xx and 5xx
raises_for_status(status) == 400 <= status /\ status < 600

Returned(result, error) == [t |-> "returned", result |-> result, error |-> error]

\* scrape_url, lines 60-65. jsonErrorIsRequestException: whether the installed
\* requests raises its own JSONDecodeError (a RequestException) from
\* response.json(), or the json module's ValueError, which line 64 does not catch.
scrape_url(outcome, jsonErrorIsRequestException) ==
    IF outcome.t = "exception"
    THEN Returned(None, PyStr(outcome.msg))
    ELSE IF raises_for_status(outcome.status)
    THEN Returned(None, PyStr(IF outcome.status < 500 THEN "Client Error" ELSE "Server Error"))
    ELSE IF outcome.body = NotJson
    THEN IF jsonErrorIsRequestException
         THEN Returned(None, PyStr("Expecting value"))
         ELSE Raised("JSONDecodeError")
    ELSE Returned(outcome.body, None)

-----------------------------------------------------------------------------
(* Scrape loop of the Start Scraping handler *)

\* Python truthiness
Truthy(x) ==
    CASE x.t = "None"  -> FALSE
      [] x.t = "str"   -> x.v # ""
      [] x.t = "list"  -> x.v # <<>>
      [] x.t = "float" -> x.v # 0
      [] x.t = "dict"  -> DOMAIN x.v # {}
      [] OTHER -> TRUE

\* dict.get(key, default)
get(d, key, default) == IF key \in DOMAIN d.v THEN d.v[key] ELSE default

\* len(), defined on strings and lists
HasLen(x) == x.t \in {"str", "list", "dict"}
len(x) == IF x.t = "dict" THEN Cardinality(DOMAIN x.v) ELSE Len(x.v)

\* result.get('title', 'N/A') of lines 161-162
get_title(d, key) == get(d, key, PyStr("N/A"))

\* Lines 163-164: len(result.get(k, '')) if result.get(k) else 0
length_of(d, key) ==
    IF Truthy(get(d, key, None)) THEN len(get(d, key, PyStr(""))) ELSE 0

\* The record appended at lines 159-166
result_record(url, result) ==
    [url |-> url,
     title |-> get_title(result, "title"),
     description |-> get_title(result, "description"),
     content_length |-> length_of(result, "text"),
     markdown_length |-> length_of(result, "markdown"),
     full_result |-> result]

\* The record appended at lines 154-157
error_record(url, error) == [url |-> url, error |-> error]

\* all_results of lines 262-271
all_results_wrong(urls, results, errors, now) ==
    [summary |-> [total_urls |-> Len(results),
                  successful |-> Len(results),
                  failed |-> Len(errors),
                  timestamp |-> now],
     results |-> [k \in 1..Len(results) |-> results[k].full_result],
     errors |-> errors]

build_all_results(urls, results, errors, now) ==
    [summary |-> [total_urls |-> Len(urls),
                  successful |-> Len(results),
                  failed |-> Len(errors),
                  timestamp |-> now],
     results |-> [k \in 1..Len(results) |-> results[k].full_result],
     errors |-> errors]

-----------------------------------------------------------------------------
(* The application: sidebar configuration, upload, extraction, scrape loop *)

VARIABLES
    api_key,          \* the sidebar's API key ("" when none is entered)
    include_markdown, \* the "Include Markdown" checkbox
    rate_limit,       \* the delay slider, in half seconds (0.5 s steps)
    uploaded_file,    \* the uploaded file's name, or None
    parsed,           \* the file content read and its DataFrame (extractor runs only)
    url_column,       \* the column the extractor chose (extractor runs only)
    urls,             \* the value read_urls_from_file returned
    ui,               \* the messages shown so far
    pc,               \* where the script is
    i,                \* the loop index of line 144
    results,          \* the results list of line 140, None before it exists
    errors,           \* the errors list of line 141, None before it exists
    request,          \* the request in flight, or None
    outcome,          \* what the last request met
    ret,              \* what the last call of scrape_url returned
    log,              \* the calls of scrape_url and the sleeps, in order
    clock,            \* time slept so far, in half seconds
    all_results,      \* the aggregate of line 262, None before it exists
    exception         \* the uncaught exception that ended the script, if any

vars == <<api_key, include_markdown, rate_limit, uploaded_file, parsed, url_column,
          urls, ui, pc, i, results, errors, request, outcome, ret, log, clock,
          all_results, exception>>

config == <<api_key, include_markdown, rate_limit>>
run == <<i, results, errors, request, outcome, ret, log, clock, all_results, exception>>

\* An uncaught exception: its type and the line that raised it
Uncaught(type, line) == [type |-> type, line |-> line]
NoException == Uncaught("none", 0)

\* Slider positions used: 0.5 s and the default 1.0 s
RateLimits == {1, 2}
ApiKeys == {"", "key"}

\* `not api_key` of lines 34, 131 and 132: true of the empty string
key_is_none(key) == FALSE
not_key(key) == key = ""

\* Lines 34-37: the sidebar's message about the key
sidebar(key) == IF not_key(key) THEN {"warning_enter_api_key"} ELSE {"api_key_configured"}

Blank ==
    /\ uploaded_file = None
    /\ parsed = None
    /\ url_column = NoCol
    /\ urls = None
    /\ pc = "upload"
    /\ i = 0
    /\ results = None
    /\ errors = None
    /\ request = None
    /\ outcome = None
    /\ ret = None
    /\ log = <<>>
    /\ clock = 0
    /\ all_results = None
    /\ exception = NoException

\* The script before a file is uploaded (lines 20-42, 106-112)
Init ==
    /\ api_key \in ApiKeys
    /\ include_markdown \in BOOLEAN
    /\ rate_limit \in RateLimits
    /\ ui = sidebar(api_key)
    /\ Blank

\* The file uploader of line 108
Upload ==
    /\ pc = "upload"
    /\ \E name \in FileNames : uploaded_file' = [t |-> "file", name |-> name]
    /\ pc' = "read"
    /\ UNCHANGED <<config, parsed, url_column, urls, ui, run>>

\* Lines 114-131: read the URLs; the button is shown when there are any
ReadUrls ==
    /\ pc = "read"
    /\ \E content \in Readable(uploaded_file.name) :
          LET r == read_urls_from_file(uploaded_file.name, content)
          IN  /\ urls' = r.urls
              /\ ui' = ui \cup r.msgs
              /\ pc' = IF Truthy(r.urls) THEN "button" ELSE "idle"
    /\ UNCHANGED <<config, uploaded_file, parsed, url_column, run>>

\* st.button(..., disabled=not api_key): a disabled button is never pressed
button_disabled(key) == not_key(key)

\* Lines 131-141: the Start Scraping button is pressed
StartScraping ==
    /\ pc = "button"
    /\ ~ button_disabled(api_key)
    /\ IF not_key(api_key)
       THEN /\ ui' = ui \cup {"error_enter_api_key"}
            /\ pc' = "idle"
            /\ UNCHANGED <<results, errors>>
       ELSE /\ results' = PyList(<<>>)
            /\ errors' = PyList(<<>>)
            /\ pc' = "loop"
            /\ UNCHANGED ui
    /\ i' = 0
    /\ UNCHANGED <<config, uploaded_file, parsed, url_column, urls, request, outcome,
                   ret, log, clock, all_results, exception>>

\* Lines 144-151 and 50-61: progress, status text, and the request is sent.
\* url[:50] of line 148 raises TypeError when url is not a string.
Dispatch ==
    /\ pc = "loop"
    /\ LET url == urls.v[i + 1]
       IN  IF url.t # "str"
           THEN /\ exception' = Uncaught("TypeError", 148)
                /\ pc' = "crashed"
                /\ UNCHANGED <<request, log>>
           ELSE /\ request' = [url |-> url, includeMarkdown |-> include_markdown,
                               key |-> api_key]
                /\ log' = Append(log, [e |-> "call", i |-> i, url |-> url])
                /\ pc' = "inflight"
                /\ UNCHANGED exception
    /\ UNCHANGED <<config, uploaded_file, parsed, url_column, urls, ui, i, results,
                   errors, outcome, ret, clock, all_results>>

\* Line 169: whether the loop sleeps after this URL
more_urls(k, n) == k < n - 1

\* Lines 61-65 and 151-169: the request ends, scrape_url returns (or raises),
\* and the outcome is recorded.
Respond ==
    /\ pc = "inflight"
    /\ \E o \in Outcomes, j \in BOOLEAN :
          LET r == scrape_url(o, j)
              url == request.url
              next == IF more_urls(i, Len(urls.v)) THEN "sleep" ELSE "finish"
          IN  /\ outcome' = o
              /\ ret' = r
              /\ IF r.t = "raised"
                 THEN /\ exception' = Uncaught(r.v, 63)
                      /\ pc' = "crashed"
                      /\ UNCHANGED <<results, errors>>
                 ELSE IF Truthy(r.error)
                 THEN /\ errors' = PyList(Append(errors.v, error_record(url, r.error)))
                      /\ pc' = next
                      /\ UNCHANGED <<results, exception>>
                 ELSE IF r.result.t # "dict"
                 THEN \* result.get of line 161 on a value that is no dict
                      /\ exception' = Uncaught("AttributeError", 161)
                      /\ pc' = "crashed"
                      /\ UNCHANGED <<results, errors>>
                 ELSE /\ results' = PyList(Append(results.v, result_record(url, r.result)))
                      /\ pc' = next
                      /\ UNCHANGED <<errors, exception>>
    /\ request' = None
    /\ UNCHANGED <<config, uploaded_file, parsed, url_column, urls, ui, i, log, clock,
                   all_results>>

\* Line 170: time.sleep(rate_limit), then the next iteration
Sleep ==
    /\ pc = "sleep"
    /\ clock' = clock + rate_limit
    /\ log' = Append(log, [e |-> "sleep", i |-> i, d |-> rate_limit])
    /\ i' = i + 1
    /\ pc' = "loop"
    /\ UNCHANGED <<config, uploaded_file, parsed, url_column, urls, ui, results, errors,
                   request, outcome, ret, all_results, exception>>

\* Lines 188-189: len(r['title']) and len(r['description']) of the summary table
summary_rows_ok(rs) ==
    \A k \in 1..Len(rs) : HasLen(rs[k].title) /\ HasLen(rs[k].description)

\* Lines 172-279: the loop is over; the views and the aggregate are built
Finish ==
    /\ pc = "finish"
    /\ ui' = ui \cup {"scraping_completed"}
    /\ IF results.v # <<>> /\ ~ summary_rows_ok(results.v)
       THEN /\ exception' = Uncaught("TypeError", 188)
            /\ pc' = "crashed"
            /\ UNCHANGED all_results
       ELSE /\ all_results' = IF Truthy(results)
                              THEN build_all_results(urls.v, results.v, errors.v, clock)
                              ELSE all_results
            /\ pc' = "done"
            /\ UNCHANGED exception
    /\ UNCHANGED <<config, uploaded_file, parsed, url_column, urls, i, results, errors,
                   request, outcome, ret, log, clock>>

Next == Upload \/ ReadUrls \/ StartScraping \/ Dispatch \/ Respond \/ Sleep \/ Finish

Spec == Init /\ [][Next]_vars

\* The extractor alone, on every file: the default configuration, and the
\* content read is kept beside the result.
InitExtract ==
    /\ api_key = ""
    /\ include_markdown = TRUE
    /\ rate_limit = 2
    /\ ui = sidebar(api_key)
    /\ Blank

Extract ==
    /\ pc = "read"
    /\ \E content \in Readable(uploaded_file.name) :
          LET r == read_urls_from_file(uploaded_file.name, content)
          IN  /\ urls' = r.urls
              /\ ui' = ui \cup r.msgs
              /\ url_column' = r.url_column
              /\ parsed' = [content |-> content, df |-> r.df]
    /\ pc' = "extracted"
    /\ UNCHANGED <<config, uploaded_file, run>>

NextExtract == Upload \/ Extract

SpecExtract == InitExtract /\ [][NextExtract]_vars

-----------------------------------------------------------------------------
(* Properties *)

Last(q) == q[Len(q)]
Calls == SelectSeq(log, LAMBDA ev : ev.e = "call")
Sleeps == SelectSeq(log, LAMBDA ev : ev.e = "sleep")

\* The scrape loop has been entered and the script has ended, normally or not
RunEnded == results # None /\ pc \in {"done", "crashed"}

\* An exception raised inside the scrape loop (lines 144-170)
LoopException == exception # NoException /\ exception.line >= 144 /\ exception.line <= 170

\* The last request has been answered and its outcome handled
Handled == outcome # None /\ pc \in {"sleep", "finish", "crashed"} /\ request = None

Is2xx(o) == o.t = "response" /\ o.status >= 200 /\ o.status < 300
IsMappingBody(o) == o.t = "response" /\ o.body.t = "dict"

\* C1: when a run ends, the results and the errors together hold one entry
\* per input URL: successCount + failureCount = totalUrls.
C1_CountsAddUp ==
    RunEnded => Len(results.v) + Len(errors.v) = Len(urls.v)

\* C1, for the runs that reach the end of the script: the counts add up.
C1_CountsAddUpWhenDone ==
    pc \in {"finish", "done"} => Len(results.v) + Len(errors.v) = Len(urls.v)

\* C2: no exception leaves the scrape loop, and a URL whose scrape failed
\* (no 2xx status, a transport failure, a body that is no JSON mapping) has
\* its {url, error} entry at the end of the errors and the loop goes on.
C2_FailuresCaptured ==
    /\ ~ LoopException
    /\ (Handled /\ ~ (Is2xx(outcome) /\ IsMappingBody(outcome)))
          => /\ pc \in {"sleep", "finish"}
             /\ errors.v # <<>>
             /\ Last(errors.v) = [url |-> urls.v[i + 1], error |-> ret.error]

\* C3: scrape_url returns (payload, None) on a 2xx status with a JSON mapping
\* as body, and otherwise (None, error) with a non-empty message, which the
\* loop records in the errors and not in the results.
C3_TwoShapes ==
    (outcome # None /\ request = None) =>
        IF Is2xx(outcome) /\ IsMappingBody(outcome)
        THEN ret = Returned(outcome.body, None)
        ELSE /\ ret.t = "returned"
             /\ ret.result = None
             /\ ret.error.t = "str"
             /\ ret.error.v # ""
             /\ Len(results.v) + Len(errors.v) = Len(Calls)
             /\ Last(errors.v).url = Last(Calls).url

\* A column name that contains "url", whatever the case of its letters
NameHasUrl(label) ==
    /\ label.t = "str"
    /\ \E k \in 1..(Len(label.v) - 2) :
          /\ label.v[k] \in {"u", "U"}
          /\ label.v[k + 1] \in {"r", "R"}
          /\ label.v[k + 2] \in {"l", "L"}

\* C4: of a parsed table the extractor selects the leftmost column whose name
\* contains "url" (any case) and gives no warning; when no name matches, and
\* only then, it selects the leftmost column, warns, and still returns the
\* URLs of that column.
C4_ColumnSelection ==
    (pc = "extracted" /\ parsed.df.t = "DataFrame" /\ Len(parsed.df.columns) >= 1) =>
        LET cols == parsed.df.columns
            matches == {c \in 1..Len(cols) : NameHasUrl(cols[c])}
        IN  IF matches # {}
            THEN /\ url_column = cols[CHOOSE c \in matches : \A d \in matches : c <= d]
                 /\ "warning_no_url_column" \notin ui
                 /\ urls.t = "list"
            ELSE /\ url_column = cols[1]
                 /\ "warning_no_url_column" \in ui
                 /\ urls.t = "list"

\* The k-th smallest member of a set of numbers
Nth(S, k) == CHOOSE x \in S : Cardinality({y \in S : y < x}) = k - 1

\* The Python value a file cell holds
HoldsValue(cell, value) ==
    \/ cell.t = "text" /\ value = PyStr(cell.v)
    \/ cell.t = "number" /\ value = PyNum(cell.v)

\* C5: the extracted list is the non-empty cells of the selected column, in
\* row order, duplicates kept: empty cells are dropped, no entry is null or
\* empty, and the list is no longer than the table.
C5_NonEmptyCellsInOrder ==
    (pc = "extracted" /\ urls.t = "list") =>
        LET table == parsed.content
            cells == Column(table.rows, ColumnIndex(table.columns, url_column))
            kept == {k \in 1..Len(cells) : cells[k] # Empty}
        IN  /\ Len(urls.v) = Cardinality(kept)
            /\ Len(urls.v) <= Len(table.rows)
            /\ \A k \in 1..Len(urls.v) :
                  /\ HoldsValue(cells[Nth(kept, k)], urls.v[k])
                  /\ urls.v[k] \notin {NaN, None, PyStr("")}

\* C5 witness: a column that is not the first is selected, and a list is
\* extracted from it with one row dropped and one kept.
C5_Witness ==
    /\ pc = "extracted"
    /\ urls.t = "list"
    /\ Len(parsed.content.columns) = 2
    /\ url_column = parsed.content.columns[2]
    /\ Len(parsed.content.rows) = 2
    /\ parsed.content.rows[1][2] = Empty
    /\ Len(urls.v) = 1

\* `d.key or default`: the default when the key is absent, null or empty
OrElse(d, key, default) ==
    IF key \in DOMAIN d.v /\ Truthy(d.v[key]) THEN d.v[key] ELSE default

\* C6: every result record has title = P.title or "N/A", description =
\* P.description or "N/A", the lengths of P.text or "" and P.markdown or "",
\* and the payload P itself, where P is the payload of the scrape.
C6_ResultRecord ==
    results # None =>
        \A k \in 1..Len(results.v) :
            LET r == results.v[k]
                P == r.full_result
            IN  /\ r.title = OrElse(P, "title", PyStr("N/A"))
                /\ r.description = OrElse(P, "description", PyStr("N/A"))
                /\ r.content_length = Len(OrElse(P, "text", PyStr("")).v)
                /\ r.markdown_length = Len(OrElse(P, "markdown", PyStr("")).v)

\* C7: a run over N URLs sleeps rate_limit after each URL but the last: when
\* the run has ended there are N-1 sleeps, the k-th of them between the call
\* for URL k-1 and the call for URL k, and none after the last call.
C7_Throttle ==
    /\ \A k \in 1..Len(log) :
          log[k].e = "sleep" =>
              /\ log[k].d = rate_limit
              /\ k > 1 /\ log[k - 1].e = "call" /\ log[k - 1].i = log[k].i
              /\ log[k].i < Len(urls.v) - 1
    /\ RunEnded => Len(Sleeps) = Len(urls.v) - 1

\* C7, for the runs that reach the end of the script: N-1 sleeps, each after
\* the call it follows, N calls, and the time slept is (N-1) * rate_limit.
C7_ThrottleWhenDone ==
    pc \in {"finish", "done"} =>
        /\ Len(log) = 2 * Len(urls.v) - 1
        /\ \A k \in 1..Len(log) :
              log[k] = IF k % 2 = 1
                       THEN [e |-> "call", i |-> (k - 1) \div 2, url |-> urls.v[(k + 1) \div 2]]
                       ELSE [e |-> "sleep", i |-> (k - 2) \div 2, d |-> rate_limit]
        /\ clock = (Len(urls.v) - 1) * rate_limit

\* The extension of the uploaded file is one the extractor reads
SupportedFile ==
    file_extension(uploaded_file.name) \in
        { <<"c", "s", "v">>, <<"x", "l", "s", "x">>, <<"x", "l", "s">> }

\* scrape_url has not been called and the results and errors do not exist
NoRun == log = <<>> /\ request = None /\ outcome = None /\ results = None /\ errors = None

\* C8: an unsupported extension, a failed parse and an empty API key each
\* surface a message and stop the run before any URL: scrape_url is never
\* called and the results and the errors are never created.
C8_FatalStops ==
    /\ (uploaded_file # None /\ pc # "read" /\ ~ SupportedFile)
          => "error_unsupported_format" \in ui /\ urls = None /\ NoRun
    /\ "error_unsupported_format" \in ui => NoRun
    /\ "error_reading_file" \in ui => urls = None /\ NoRun
    /\ api_key = "" => "warning_enter_api_key" \in ui /\ NoRun

\* C8 witness: a file of an unsupported format was uploaded with a key
\* entered; the error is shown and the script has stopped without a run.
C8_Witness ==
    /\ pc = "idle"
    /\ api_key # ""
    /\ "error_unsupported_format" \in ui
    /\ NoRun

\* C8, the other two kinds: the script stopped on an unreadable file, and
\* it waits at the disabled button with URLs read and no key.
C8_WitnessReadError ==
    pc = "idle" /\ "error_reading_file" \in ui /\ api_key # "" /\ NoRun

C8_WitnessNoKey ==
    pc = "button" /\ api_key = "" /\ Len(urls.v) = 2 /\ NoRun

\* The aggregate the claim describes
ExpectedAggregate ==
    [summary |-> [total_urls |-> Len(urls.v),
                  successful |-> Len(results.v),
                  failed |-> Len(errors.v),
                  timestamp |-> clock],
     results |-> [k \in 1..Len(results.v) |-> results.v[k].full_result],
     errors |-> errors.v]

C10_InOrderOnce ==
    /\ \A k \in 1..Len(Calls) : Calls[k].i = k - 1 /\ Calls[k].url = urls.v[k]
    /\ request # None => pc = "inflight"
    /\ RunEnded => Len(Calls) = Len(urls.v)

\* C10, for the runs that reach the end of the script
C10_InOrderOnceWhenDone ==
    /\ \A k \in 1..Len(Calls) : Calls[k].i = k - 1 /\ Calls[k].url = urls.v[k]
    /\ request # None => pc = "inflight"
    /\ pc \in {"finish", "done"} => Len(Calls) = Len(urls.v)

====
